---- MODULE Spec2Model ----
(***************************************************************************)
(* The create/read/update/delete reconcilers of the Jamf Pro accounts and   *)
(* departments resources, as state machines over one resource instance.     *)
(*                                                                          *)
(* A string that the code converts (the state identifier) is a sequence of  *)
(* one-character strings, so "42" is <<"4","2">> and "" is <<>>.            *)
(* A remote call is an input: its response is chosen among the responses    *)
(* the client library can give (an entity, a structured API error, a        *)
(* transport error).  One action is one run of a retry closure together     *)
(* with the code that follows the retry loop when that run ends the loop.   *)
(*                                                                          *)
(* retry.RetryContext runs its closure, returns nil when the closure        *)
(* returns nil, returns the error of a NonRetryableError at once, and runs  *)
(* the closure again after a RetryableError until its deadline has passed,  *)
(* when it returns the last error.  A closure run completes before the      *)
(* deadline is looked at; the deadline may pass after any retryable         *)
(* failure.                                                                 *)
(*                                                                          *)
(* Of the accounts schema the model carries id, name, password, site and    *)
(* groups; the remaining scalar fields are copied the way name is, and      *)
(* ldap_server the way site is.                                             *)
(***************************************************************************)
EXTENDS Integers, Sequences, FiniteSets, TLC

\* Number of runs of a retry closure that fit before the deadline of its
\* retry.RetryContext passes.
MaxAttempts == 2

Kinds == {"accounts", "departments"}

Names == {"Engineering", "Sales"}

None == [none |-> TRUE]

-----------------------------------------------------------------------------
(* strconv.Itoa / strconv.Atoi *)

DigitChars == <<"0", "1", "2", "3", "4", "5", "6", "7", "8", "9">>

\* The value of each decimal digit.
DigitValue ==
    [c \in {DigitChars[i] : i \in 1..10} |->
        (CHOOSE i \in 1..10 : DigitChars[i] = c) - 1]

IsDigit(c) == c \in DOMAIN DigitValue

DigitVal(c) == DigitValue[c]

RECURSIVE UItoa(_)
UItoa(n) ==
    IF n < 10 THEN <<DigitChars[n + 1]>>
    ELSE Append(UItoa(n \div 10), DigitChars[(n % 10) + 1])

\* Itoa emitting the digits in the order the division produces them.
ItoaReversed(n) ==
    LET s == UItoa(IF n < 0 THEN -n ELSE n)
    IN [i \in 1..Len(s) |-> s[Len(s) + 1 - i]]

Itoa(n) == IF n < 0 THEN <<"-">> \o UItoa(-n) ELSE UItoa(n)

\* The value of the first n digits of s.
RECURSIVE UAtoiPrefix(_, _)
UAtoiPrefix(s, n) ==
    IF n = 0 THEN 0
    ELSE 10 * UAtoiPrefix(s, n - 1) + DigitVal(s[n])

UAtoi(s) == UAtoiPrefix(s, Len(s))

\* [ok |-> FALSE] stands for a non-nil error (empty input, no digits, or a
\* character that is not a decimal digit after the optional sign).
Atoi(s) ==
    LET signed == s # <<>> /\ s[1] \in {"+", "-"}
        body   == IF signed THEN Tail(s) ELSE s
    IN IF body = <<>> \/ \E i \in 1..Len(body) : ~IsDigit(body[i])
       THEN [ok |-> FALSE, val |-> 0]
       ELSE [ok |-> TRUE,
             val |-> IF s[1] = "-" THEN 0 - UAtoi(body) ELSE UAtoi(body)]

-----------------------------------------------------------------------------
(* Values of the remote system *)

\* Identifiers the remote assigns to accounts (int) and departments (string).
AccountIDs == {7, 12}
DepartmentIDs == {<<"4", "2">>, <<"9", "9">>}

\* jamfpro.SharedResourceSite; the zero value is an absent site.
NoSite == [id |-> 0, name |-> ""]
Sites == {NoSite, [id |-> 1, name |-> "HQ"]}

GroupNames == {"admins"}
GroupIDs == {3, 4}

\* Identifiers found in a persisted state: none yet, one written by an
\* earlier Create, or one that came from outside (import, edited state).
StoredIds(k) ==
    IF k = "accounts" THEN {<<>>, Itoa(7), <<"x">>}
    ELSE {<<>>, <<"4", "2">>, <<"x">>}

\* Results of a remote call: success, *http_client.APIError, any other error.
ErrKinds == {"api", "transport"}

\* Responses of client.GetAccounts(): the groups of the listing, in order.
GroupListings ==
    {<<>>,
     <<[name |-> "admins", id |-> 3]>>,
     <<[name |-> "admins", id |-> 4]>>,
     <<[name |-> "admins", id |-> 3], [name |-> "admins", id |-> 4]>>}

GetAccountsResponses ==
    [res : {"ok"}, groups : GroupListings]
    \cup [res : ErrKinds, groups : {<<>>}]

RemoteGroups == {<<>>, <<[name |-> "admins", id |-> 3, site |-> NoSite]>>}

\* jamfpro.ResourceAccount as returned by a lookup.
RemoteAccounts ==
    [id : AccountIDs, name : Names, password : {"h"}, site : Sites,
     groups : RemoteGroups]

\* A lookup by ID answers with the entity of that ID, a lookup by name with
\* an entity of that name.
GetAccountByIDResponses(id) ==
    [res : {"ok"},
     account : [id : {id}, name : Names, password : {"h"}, site : Sites,
                groups : RemoteGroups]]
    \cup [res : ErrKinds, account : {None}]

GetAccountByNameResponses(name) ==
    [res : {"ok"},
     account : [id : AccountIDs, name : {name}, password : {"h"}, site : Sites,
                groups : RemoteGroups]]
    \cup [res : ErrKinds, account : {None}]

CreateAccountResponses ==
    [res : {"ok"}, id : AccountIDs] \cup [res : ErrKinds, id : {0}]

\* Responses of a call that returns only an error (update, delete).
PlainResponses == {"ok"} \cup ErrKinds

\* jamfpro.ResourceDepartment as returned by a lookup; the (nil, nil) answer
\* that ResourceJamfProDepartmentsRead tests for is department = None.
GetDepartmentByIDResponses(id) ==
    [res : {"ok"}, department : [id : {id}, name : Names] \cup {None}]
    \cup [res : ErrKinds, department : {None}]

CreateDepartmentResponses ==
    [res : {"ok"}, id : DepartmentIDs] \cup [res : ErrKinds, id : {<<>>}]

\* One remote call in the log of a closure run.
Call(c, arg, res) == [call |-> c, arg |-> arg, res |-> res]

-----------------------------------------------------------------------------
(* Resource data (schema.ResourceData) *)

\* d.SetId
SetId(dd, v) == [dd EXCEPT !.id = v]

\* The planned values of a configuration: what d.Get returns in Create and
\* Update.  Computed sub-fields of a configured group are not yet known.
ConfigGroups(names) == {[name |-> g, id |-> 0, site |-> <<>>] : g \in names}

Configs(k) ==
    IF k = "accounts"
    THEN [name : Names,
          password : {"", "p"},
          site : {<<>>, <<[id |-> 1, name |-> "HQ"]>>},
          groups : {ConfigGroups(gs) : gs \in SUBSET GroupNames}]
    ELSE [name : Names]

Planned(k, id, cfg) ==
    IF k = "accounts"
    THEN [id |-> id, name |-> cfg.name, password |-> cfg.password,
          site |-> cfg.site, groups |-> cfg.groups]
    ELSE [id |-> id, name |-> cfg.name]

\* A diagnostics list with one error entry for the given action.
ErrorDiag(action) == <<[severity |-> "error", summary |-> action]>>

-----------------------------------------------------------------------------
(* accounts: constructor and retry closures *)

\* The groupNameToID map: a later entry of the listing overwrites an earlier
\* one of the same name.
groupNameToID(listing, name) ==
    LET idx == {i \in 1..Len(listing) : listing[i].name = name}
    IN IF idx = {} THEN [exists |-> FALSE, id |-> 0]
       ELSE [exists |-> TRUE,
             id |-> listing[CHOOSE i \in idx : \A j \in idx : j <= i].id]

\* constructJamfProAccount building the groups from every entry of the
\* listing instead of the configured groups.
constructJamfProAccountListedGroups(dd, ga) ==
    IF ga.res # "ok" THEN [ok |-> FALSE, account |-> None]
    ELSE IF \E g \in dd.groups : ~groupNameToID(ga.groups, g.name).exists
    THEN [ok |-> FALSE, account |-> None]
    ELSE [ok |-> TRUE,
          account |->
            [name |-> dd.name,
             password |-> dd.password,
             site |-> IF dd.site # <<>> THEN dd.site[1] ELSE NoSite,
             groups |-> {[name |-> ga.groups[i].name, id |-> ga.groups[i].id] :
                         i \in 1..Len(ga.groups)}]]

\* constructJamfProAccount leaving out the configured groups that the
\* listing does not hold, instead of failing.
constructJamfProAccountSkipsMissing(dd, ga) ==
    IF ga.res # "ok" THEN [ok |-> FALSE, account |-> None]
    ELSE [ok |-> TRUE,
          account |->
            [name |-> dd.name,
             password |-> dd.password,
             site |-> IF dd.site # <<>> THEN dd.site[1] ELSE NoSite,
             groups |-> {[name |-> g.name,
                          id |-> groupNameToID(ga.groups, g.name).id] :
                         g \in {x \in dd.groups :
                                  groupNameToID(ga.groups, x.name).exists}}]]

constructJamfProAccount(dd, ga) ==
    IF ga.res # "ok" THEN [ok |-> FALSE, account |-> None]
    ELSE IF \E g \in dd.groups : ~groupNameToID(ga.groups, g.name).exists
    THEN [ok |-> FALSE, account |-> None]
    ELSE [ok |-> TRUE,
          account |->
            [name |-> dd.name,
             password |-> dd.password,
             site |-> IF dd.site # <<>> THEN dd.site[1] ELSE NoSite,
             groups |-> {[name |-> g.name,
                          id |-> groupNameToID(ga.groups, g.name).id] :
                         g \in dd.groups}]]

\* generateTFDiagsFromHTTPError returning an empty diagnostic list.
generateTFDiagsFromHTTPErrorEmpty(action) == <<>>

generateTFDiagsFromHTTPError(action) == ErrorDiag(action)

\* AccountCreateClosure wrapping the constructor's error in RetryableError.
AccountCreateClosureRetriesCtor(dd, ga, cr) ==
    LET c   == constructJamfProAccount(dd, ga)
        cGA == Call("GetAccounts", None, ga.res)
        cCR == Call("CreateAccount", c.account, cr.res)
    IN IF ~c.ok THEN [calls |-> <<cGA>>, out |-> "retry", id |-> 0]
       ELSE IF cr.res = "ok"
       THEN [calls |-> <<cGA, cCR>>, out |-> "success", id |-> cr.id]
       ELSE IF cr.res = "api"
       THEN [calls |-> <<cGA, cCR>>, out |-> "fatal", id |-> 0]
       ELSE [calls |-> <<cGA, cCR>>, out |-> "retry", id |-> 0]

\* AccountCreateClosure returning a retryable error after a create call that
\* succeeded.
AccountCreateClosureRetriesSuccess(dd, ga, cr) ==
    LET c   == constructJamfProAccount(dd, ga)
        cGA == Call("GetAccounts", None, ga.res)
        cCR == Call("CreateAccount", c.account, cr.res)
    IN IF ~c.ok THEN [calls |-> <<cGA>>, out |-> "fatal", id |-> 0]
       ELSE IF cr.res = "api"
       THEN [calls |-> <<cGA, cCR>>, out |-> "fatal", id |-> 0]
       ELSE [calls |-> <<cGA, cCR>>, out |-> "retry", id |-> 0]

\* The closure of the create retry: out is "success" (nil), "fatal"
\* (NonRetryableError) or "retry" (RetryableError).
AccountCreateClosure(dd, ga, cr) ==
    LET c   == constructJamfProAccount(dd, ga)
        cGA == Call("GetAccounts", None, ga.res)
        cCR == Call("CreateAccount", c.account, cr.res)
    IN IF ~c.ok THEN [calls |-> <<cGA>>, out |-> "fatal", id |-> 0]
       ELSE IF cr.res = "ok"
       THEN [calls |-> <<cGA, cCR>>, out |-> "success", id |-> cr.id]
       ELSE IF cr.res = "api"
       THEN [calls |-> <<cGA, cCR>>, out |-> "fatal", id |-> 0]
       ELSE [calls |-> <<cGA, cCR>>, out |-> "retry", id |-> 0]

\* AccountReadClosure looking the account up by name when the identifier
\* does not parse.
AccountReadClosureNameOnBadId(dd, gi, gn) ==
    LET a   == Atoi(dd.id)
        cID == Call("GetAccountByID", a.val, gi.res)
        cNM == Call("GetAccountByName", dd.name, gn.res)
    IN IF ~a.ok
       THEN IF gn.res = "ok"
            THEN [calls |-> <<cNM>>, out |-> "success", account |-> gn.account]
            ELSE [calls |-> <<cNM>>, out |-> "retry", account |-> None]
       ELSE IF gi.res = "ok"
       THEN [calls |-> <<cID>>, out |-> "success", account |-> gi.account]
       ELSE IF gi.res = "api"
       THEN [calls |-> <<cID>>, out |-> "fatal", account |-> None]
       ELSE IF gn.res = "ok"
       THEN [calls |-> <<cID, cNM>>, out |-> "success", account |-> gn.account]
       ELSE IF gn.res = "api"
       THEN [calls |-> <<cID, cNM>>, out |-> "fatal", account |-> None]
       ELSE [calls |-> <<cID, cNM>>, out |-> "retry", account |-> None]

\* The closure of the read retry.
AccountReadClosure(dd, gi, gn) ==
    LET a   == Atoi(dd.id)
        cID == Call("GetAccountByID", a.val, gi.res)
        cNM == Call("GetAccountByName", dd.name, gn.res)
    IN IF ~a.ok THEN [calls |-> <<>>, out |-> "fatal", account |-> None]
       ELSE IF gi.res = "ok"
       THEN [calls |-> <<cID>>, out |-> "success", account |-> gi.account]
       ELSE IF gi.res = "api"
       THEN [calls |-> <<cID>>, out |-> "fatal", account |-> None]
       ELSE IF gn.res = "ok"
       THEN [calls |-> <<cID, cNM>>, out |-> "success", account |-> gn.account]
       ELSE IF gn.res = "api"
       THEN [calls |-> <<cID, cNM>>, out |-> "fatal", account |-> None]
       ELSE [calls |-> <<cID, cNM>>, out |-> "retry", account |-> None]

\* The ok of d.GetOk for a string field: set to other than the zero value.
GetOk(v) == v # ""

\* A nested site of the state: a list of one map, or the empty list.
SiteList(site) ==
    IF site.id # 0 \/ site.name # "" THEN <<site>> ELSE <<>>

\* ResourceJamfProAccountRead after its retry loop.
AccountReadAfterRetry(dd, failed, account) ==
    IF failed
    THEN [d |-> dd, diags |-> generateTFDiagsFromHTTPError("read")]
    ELSE [d |-> [dd EXCEPT
                   !.name = account.name,
                   !.password = IF GetOk(dd.password) THEN account.password
                                ELSE @,
                   !.site = SiteList(account.site),
                   !.groups = {[name |-> account.groups[i].name,
                                id |-> account.groups[i].id,
                                site |-> SiteList(account.groups[i].site)] :
                               i \in 1..Len(account.groups)}],
          diags |-> <<>>]

\* The closure of the update retry.
AccountUpdateClosure(dd, ga, ui, un) ==
    LET c   == constructJamfProAccount(dd, ga)
        a   == Atoi(dd.id)
        cGA == Call("GetAccounts", None, ga.res)
        cID == Call("UpdateAccountByID", a.val, ui)
        cNM == Call("UpdateAccountByName", dd.name, un)
    IN IF ~c.ok THEN [calls |-> <<cGA>>, out |-> "fatal"]
       ELSE IF ~a.ok THEN [calls |-> <<cGA>>, out |-> "fatal"]
       ELSE IF ui = "ok" THEN [calls |-> <<cGA, cID>>, out |-> "success"]
       ELSE IF ui = "api" THEN [calls |-> <<cGA, cID>>, out |-> "fatal"]
       ELSE IF un = "ok" THEN [calls |-> <<cGA, cID, cNM>>, out |-> "success"]
       ELSE IF un = "api" THEN [calls |-> <<cGA, cID, cNM>>, out |-> "fatal"]
       ELSE [calls |-> <<cGA, cID, cNM>>, out |-> "retry"]

\* AccountDeleteClosure with the structured-error test of the update closure:
\* an API error of the delete by ID ends the loop without the fallback.
AccountDeleteClosureFailFast(dd, di, dn) ==
    LET a   == Atoi(dd.id)
        cID == Call("DeleteAccountByID", a.val, di)
        cNM == Call("DeleteAccountByName", dd.name, dn)
    IN IF ~a.ok THEN [calls |-> <<>>, out |-> "fatal"]
       ELSE IF di = "ok" THEN [calls |-> <<cID>>, out |-> "success"]
       ELSE IF di = "api" THEN [calls |-> <<cID>>, out |-> "fatal"]
       ELSE IF dn = "ok" THEN [calls |-> <<cID, cNM>>, out |-> "success"]
       ELSE [calls |-> <<cID, cNM>>, out |-> "retry"]

\* The closure of the delete retry.
AccountDeleteClosure(dd, di, dn) ==
    LET a   == Atoi(dd.id)
        cID == Call("DeleteAccountByID", a.val, di)
        cNM == Call("DeleteAccountByName", dd.name, dn)
    IN IF ~a.ok THEN [calls |-> <<>>, out |-> "fatal"]
       ELSE IF di = "ok" THEN [calls |-> <<cID>>, out |-> "success"]
       ELSE IF dn = "ok" THEN [calls |-> <<cID, cNM>>, out |-> "success"]
       ELSE [calls |-> <<cID, cNM>>, out |-> "retry"]

\* AccountDeleteAfterRetry with d.SetId("") placed before the error test.
AccountDeleteAfterRetryClearsFirst(dd, failed) ==
    IF failed
    THEN [d |-> SetId(dd, <<>>), diags |-> generateTFDiagsFromHTTPError("delete")]
    ELSE [d |-> SetId(dd, <<>>), diags |-> <<>>]

\* ResourceJamfProAccountDelete after its retry loop.
AccountDeleteAfterRetry(dd, failed) ==
    IF failed
    THEN [d |-> dd, diags |-> generateTFDiagsFromHTTPError("delete")]
    ELSE [d |-> SetId(dd, <<>>), diags |-> <<>>]

-----------------------------------------------------------------------------
(* departments: constructor, retry closures and the code after each loop *)

constructJamfProDepartment(dd) == [name |-> dd.name]

\* ResourceJamfProDepartmentsCreate up to the call of Read: no retry loop.
DepartmentsCreateCall(dd, cr) ==
    LET cCR == Call("CreateDepartment", constructJamfProDepartment(dd), cr.res)
    IN IF cr.res # "ok"
       THEN [calls |-> <<cCR>>, out |-> "fatal", d |-> dd,
             diags |-> ErrorDiag("create")]
       ELSE [calls |-> <<cCR>>, out |-> "success", d |-> SetId(dd, cr.id),
             diags |-> <<>>]

\* The closure of the read retry: every error is retryable.
DepartmentsReadClosure(dd, gi) ==
    LET cID == Call("GetDepartmentByID", dd.id, gi.res)
    IN IF gi.res # "ok"
       THEN [calls |-> <<cID>>, out |-> "retry", department |-> None]
       ELSE [calls |-> <<cID>>, out |-> "success", department |-> gi.department]

\* DepartmentsReadAfterRetry clearing the name together with the identifier
\* when the read failed.
DepartmentsReadAfterRetryClearsName(dd, failed, department) ==
    IF failed
    THEN [d |-> [SetId(dd, <<>>) EXCEPT !.name = ""], diags |-> ErrorDiag("read")]
    ELSE IF department # None
    THEN [d |-> [SetId(dd, dd.id) EXCEPT !.name = department.name],
          diags |-> <<>>]
    ELSE [d |-> SetId(dd, <<>>), diags |-> <<>>]

\* ResourceJamfProDepartmentsRead after its retry loop.
DepartmentsReadAfterRetry(dd, failed, department) ==
    IF failed
    THEN [d |-> SetId(dd, <<>>), diags |-> ErrorDiag("read")]
    ELSE IF department # None
    THEN [d |-> [SetId(dd, dd.id) EXCEPT !.name = department.name],
          diags |-> <<>>]
    ELSE [d |-> SetId(dd, <<>>), diags |-> <<>>]

\* The closure of the update retry.
DepartmentsUpdateClosure(dd, ui, un) ==
    LET cID == Call("UpdateDepartmentByID", dd.id, ui)
        cNM == Call("UpdateDepartmentByName", dd.name, un)
    IN IF ui = "ok" THEN [calls |-> <<cID>>, out |-> "success"]
       ELSE IF un # "ok" THEN [calls |-> <<cID, cNM>>, out |-> "retry"]
       ELSE [calls |-> <<cID, cNM>>, out |-> "success"]

\* DepartmentsDeleteClosure returning the retryable error of the delete by
\* ID although the delete by name succeeded.
DepartmentsDeleteClosureNoReturn(dd, di, dn) ==
    LET cID == Call("DeleteDepartmentByID", dd.id, di)
        cNM == Call("DeleteDepartmentByName", dd.name, dn)
    IN IF di = "ok" THEN [calls |-> <<cID>>, out |-> "success"]
       ELSE [calls |-> <<cID, cNM>>, out |-> "retry"]

\* The closure of the delete retry.
DepartmentsDeleteClosure(dd, di, dn) ==
    LET cID == Call("DeleteDepartmentByID", dd.id, di)
        cNM == Call("DeleteDepartmentByName", dd.name, dn)
    IN IF di = "ok" THEN [calls |-> <<cID>>, out |-> "success"]
       ELSE IF dn # "ok" THEN [calls |-> <<cID, cNM>>, out |-> "retry"]
       ELSE [calls |-> <<cID, cNM>>, out |-> "success"]

\* DepartmentsDeleteAfterRetry without the final d.SetId("").
DepartmentsDeleteAfterRetryKeepsId(dd, failed) ==
    IF failed
    THEN [d |-> dd, diags |-> ErrorDiag("delete")]
    ELSE [d |-> dd, diags |-> <<>>]

\* ResourceJamfProDepartmentsDelete after its retry loop.
DepartmentsDeleteAfterRetry(dd, failed) ==
    IF failed
    THEN [d |-> dd, diags |-> ErrorDiag("delete")]
    ELSE [d |-> SetId(dd, <<>>), diags |-> <<>>]

-----------------------------------------------------------------------------
(* State *)

VARIABLES
    kind,    \* which reconciler this resource instance belongs to
    d,       \* the resource data: identifier and fields
    entry,   \* the resource data when the running callback was entered
    op,      \* the callback the plugin host invoked last
    pc,      \* where that callback is: a retry loop, "readback", or "done"
    rpc,     \* "loop" while a Read function is in its retry loop
    att,     \* closure runs so far in the current loop of the callback
    ratt,    \* closure runs so far in the retry loop of the running Read
    last,    \* how the latest run in a loop of the callback ended
    rlast,   \* how the latest run in the loop of the Read ended
    calls,   \* the remote calls of the latest closure run, in order
    diags,   \* the diagnostics the callback returned
    hist,    \* what has happened since the callback was entered
    other    \* the resource data and callback position of a second resource
             \* instance, which waits while the variables above follow the
             \* first one, or None

vars == <<kind, d, entry, op, pc, rpc, att, ratt, last, rlast, calls, diags, hist,
          other>>

ByIDCalls == {"UpdateAccountByID", "UpdateDepartmentByID",
              "DeleteAccountByID", "DeleteDepartmentByID"}

ByNameCalls == {"UpdateAccountByName", "UpdateDepartmentByName",
                "DeleteAccountByName", "DeleteDepartmentByName"}

CreateCalls == {"CreateAccount", "CreateDepartment"}

Issued(cs, names) == {i \in 1..Len(cs) : cs[i].call \in names}

Succeeded(cs, names) == \E i \in Issued(cs, names) : cs[i].res = "ok"

\* Both the ID-based and the name-based call were issued and both failed.
BothFailed(cs) ==
    /\ \E i \in Issued(cs, ByIDCalls) : cs[i].res # "ok"
    /\ \E i \in Issued(cs, ByNameCalls) : cs[i].res # "ok"

InitHist ==
    [createOK   |-> FALSE,  \* a remote create returned success
     created    |-> <<>>,   \* the identifier it returned
     lastCreate |-> "none", \* the result of the latest remote create
     nCreate    |-> 0,      \* remote create calls issued
     remoteOK   |-> FALSE,  \* a remote update or delete returned success
     bothFailed |-> TRUE,   \* every run of the update/delete closure so far
                            \* had both of its calls fail
     readOK     |-> FALSE,  \* a Read fetched an entity
     fetched    |-> None,   \* the entity of the latest successful lookup
     apiSeen    |-> FALSE,  \* a remote call returned a structured API error
     afterApi   |-> FALSE,  \* a closure run issued a remote call after an
                            \* earlier run had got a structured API error
     apiRetried |-> FALSE,  \* a closure run that got a structured API error
                            \* ended with a retryable error
     transportRuns |-> 0,   \* closure runs in which both the ID-based and the
                            \* name-based call failed with a transport error
     ctorFailed |-> FALSE,  \* the constructor returned an error
     ranAfterCtorFail |-> FALSE, \* a closure ran after the constructor failed
     requests   |-> {},     \* the request objects the constructor returned
     listing    |-> [res |-> "none", groups |-> <<>>],
                            \* the latest response of client.GetAccounts()
     lastCtor   |-> [ok |-> FALSE, account |-> None],
                            \* what the latest run of the constructor returned
     targets    |-> {},     \* the identifiers of the remote entities that
                            \* update and delete calls modified or removed
     prevOK     |-> FALSE,  \* the callback before this one was a Read that
                            \* fetched an entity and returned no diagnostics
     prevD      |-> <<>>,   \* the resource data that Read left
     prevFetched |-> None]  \* the entity that Read fetched

\* hist after one run of a create, update or delete closure.
HistAfter(cs) ==
    [hist EXCEPT
       !.nCreate = @ + Cardinality(Issued(cs, CreateCalls)),
       !.lastCreate = IF Issued(cs, CreateCalls) = {} THEN @
                      ELSE cs[CHOOSE i \in Issued(cs, CreateCalls) : TRUE].res,
       !.remoteOK = @ \/ Succeeded(cs, ByIDCalls \cup ByNameCalls),
       !.bothFailed = @ /\ BothFailed(cs)]

\* Both calls of the run failed with a transport error.
BothFailedTransport(cs) ==
    /\ BothFailed(cs)
    /\ \A i \in Issued(cs, ByIDCalls \cup ByNameCalls) : cs[i].res = "transport"

\* h after a closure run with calls cs that ended with out.
HistTrack(h, cs, out) ==
    [h EXCEPT
       !.apiSeen = @ \/ (\E i \in 1..Len(cs) : cs[i].res = "api"),
       !.afterApi = @ \/ (h.apiSeen /\ cs # <<>>),
       !.apiRetried = @ \/ (out = "retry" /\ \E i \in 1..Len(cs) : cs[i].res = "api"),
       !.transportRuns = @ + (IF BothFailedTransport(cs) THEN 1 ELSE 0)]

\* h after a run of the constructor that returned c.
HistCtor(h, c) ==
    [h EXCEPT
       !.ranAfterCtorFail = @ \/ h.ctorFailed,
       !.ctorFailed = @ \/ ~c.ok,
       !.requests = @ \cup (IF c.ok THEN {c.account} ELSE {}),
       !.lastCtor = c]

\* The identifiers that the remote entity named in a name-based update or
\* delete may carry when the call succeeds: the remote system resolves the
\* name at the time of the call.
NameHolders(res, ids) ==
    IF res = "ok" THEN ids ELSE {CHOOSE i \in ids : TRUE}

\* h after an update or delete closure run with calls cs, where the entity
\* that carried the name of a name-based call had the identifier tid: a
\* successful call by ID acts on the entity of the ID it was given, a
\* successful call by name on the entity of that name.
HistTargets(h, cs, tid) ==
    [h EXCEPT
       !.targets = @ \cup {cs[i].arg : i \in {j \in Issued(cs, ByIDCalls) :
                                                 cs[j].res = "ok"}}
                     \cup (IF Succeeded(cs, ByNameCalls) THEN {tid} ELSE {})]

\* h after client.GetAccounts() returned ga to the constructor.
HistListing(h, ga) == [h EXCEPT !.listing = ga]

\* hist after one run of a read closure.
HistAfterRead(out, entity) ==
    IF out = "success"
    THEN [hist EXCEPT !.readOK = entity # None, !.fetched = entity]
    ELSE hist

\* A resource instance before the host has invoked any callback on it.
InitInstance ==
    /\ kind \in Kinds
    /\ d \in {Planned(kind, id, cfg) : id \in StoredIds(kind), cfg \in Configs(kind)}
    /\ entry = d
    /\ op = "none"
    /\ pc = "idle"
    /\ rpc = "off"
    /\ att = 0
    /\ ratt = 0
    /\ last = "none"
    /\ rlast = "none"
    /\ calls = <<>>
    /\ diags = <<>>
    /\ hist = InitHist

\* One resource instance.
Init ==
    /\ InitInstance
    /\ other = None

-----------------------------------------------------------------------------
(* The plugin host invokes a callback; at most one runs at a time. *)

Begin(o, newd, p, r) ==
    /\ pc \in {"idle", "done"}
    /\ op' = o
    /\ d' = newd
    /\ entry' = newd
    /\ pc' = p
    /\ rpc' = r
    /\ att' = 0
    /\ ratt' = 0
    /\ last' = "none"
    /\ rlast' = "none"
    /\ calls' = <<>>
    /\ diags' = <<>>
    /\ hist' = IF o = "read" /\ op = "read" /\ pc = "done"
                  /\ hist.readOK /\ diags = <<>>
               THEN [InitHist EXCEPT !.prevOK = TRUE,
                                     !.prevD = d,
                                     !.prevFetched = hist.fetched]
               ELSE InitHist
    /\ UNCHANGED <<kind, other>>

HostCreate ==
    /\ d.id = <<>>
    /\ \E cfg \in Configs(kind) :
         Begin("create", Planned(kind, <<>>, cfg), "create", "off")

HostRead == Begin("read", d, "read", "loop")

HostUpdate ==
    \E cfg \in Configs(kind) :
        Begin("update", Planned(kind, d.id, cfg), "update", "off")

HostDelete == Begin("delete", d, "delete", "off")

-----------------------------------------------------------------------------
(* accounts *)

\* ResourceJamfProAccountCreate: one run of the create closure, and the code
\* after the loop when the run ends it.
AccountCreateAttempt ==
    /\ kind = "accounts" /\ pc = "create" /\ att < MaxAttempts
    /\ \E ga \in GetAccountsResponses, cr \in CreateAccountResponses :
         LET r == AccountCreateClosure(d, ga, cr)
         IN /\ calls' = r.calls
            /\ last' = r.out
            /\ hist' = [HistListing(
                            HistCtor(HistTrack(HistAfter(r.calls), r.calls, r.out),
                                     constructJamfProAccount(d, ga)), ga) EXCEPT
                          !.createOK = (r.out = "success"),
                          !.created = IF r.out = "success" THEN r.id ELSE @]
            /\ IF r.out = "success"
               THEN /\ d' = SetId(d, Itoa(r.id))
                    /\ pc' = "readback"
                    /\ att' = 0
                    /\ UNCHANGED diags
               ELSE IF r.out = "fatal"
               THEN /\ pc' = "done"
                    /\ diags' = generateTFDiagsFromHTTPError("create")
                    /\ att' = att + 1
                    /\ UNCHANGED d
               ELSE /\ att' = att + 1
                    /\ UNCHANGED <<d, pc, diags>>
    /\ UNCHANGED <<kind, other, entry, op, rpc, ratt, rlast>>

\* The deadline of the create retry passes after a retryable failure.
AccountCreateTimeout ==
    /\ kind = "accounts" /\ pc = "create" /\ last = "retry"
    /\ last' = "timeout"
    /\ pc' = "done"
    /\ diags' = generateTFDiagsFromHTTPError("create")
    /\ UNCHANGED <<kind, other, d, entry, op, rpc, att, ratt, rlast, calls, hist>>

\* AccountReadbackClosure wrapping a failed Read in NonRetryableError.
AccountReadbackClosureNonRetryable(readDiags) ==
    IF Len(readDiags) > 0 THEN "fatal" ELSE "success"

\* The closure of the read-back retry of Create and Update.
AccountReadbackClosure(readDiags) ==
    IF Len(readDiags) > 0 THEN "retry" ELSE "success"

\* A run of the read-back closure begins: it calls ResourceJamfProAccountRead.
AccountReadbackBegin ==
    /\ kind = "accounts" /\ pc = "readback" /\ rpc = "off" /\ att < MaxAttempts
    /\ rpc' = "loop"
    /\ ratt' = 0
    /\ rlast' = "none"
    /\ UNCHANGED <<kind, other, d, entry, op, pc, att, last, calls, diags, hist>>

\* The deadline of the read-back retry passes after a retryable failure.
AccountReadbackTimeout ==
    /\ kind = "accounts" /\ pc = "readback" /\ rpc = "off" /\ last = "retry"
    /\ last' = "timeout"
    /\ pc' = "done"
    /\ diags' = generateTFDiagsFromHTTPError(
                    IF op = "create" THEN "update state for" ELSE "update")
    /\ UNCHANGED <<kind, other, d, entry, op, rpc, att, ratt, rlast, calls, hist>>

\* ResourceJamfProAccountRead returns f: to the host, or to the read-back
\* closure of Create or Update, whose run ends with it.
AccountReadReturn(f) ==
    /\ d' = f.d
    /\ rpc' = "off"
    /\ IF op = "read"
       THEN /\ pc' = "done"
            /\ diags' = f.diags
            /\ UNCHANGED <<att, last>>
       ELSE /\ att' = att + 1
            /\ last' = AccountReadbackClosure(f.diags)
            /\ IF AccountReadbackClosure(f.diags) = "success"
               THEN pc' = "done" /\ diags' = <<>>
               ELSE UNCHANGED <<pc, diags>>

\* ResourceJamfProAccountRead: one run of the read closure, and the code
\* after the loop when the run ends it.
AccountReadAttempt ==
    /\ kind = "accounts" /\ rpc = "loop" /\ ratt < MaxAttempts
    /\ \E gi \in GetAccountByIDResponses(Atoi(d.id).val) :
       \E gn \in IF gi.res = "transport" THEN GetAccountByNameResponses(d.name)
                  ELSE {[res |-> "transport", account |-> None]} :
         LET r == AccountReadClosure(d, gi, gn)
         IN /\ calls' = r.calls
            /\ rlast' = r.out
            /\ ratt' = ratt + 1
            /\ IF r.out = "retry"
               THEN UNCHANGED <<d, pc, rpc, att, last, diags>>
               ELSE AccountReadReturn(
                        AccountReadAfterRetry(d, r.out = "fatal", r.account))
            /\ hist' = HistTrack(HistAfterRead(r.out, r.account), r.calls, r.out)
    /\ UNCHANGED <<kind, other, entry, op>>

\* The deadline of the read retry passes after a retryable failure.
AccountReadTimeout ==
    /\ kind = "accounts" /\ rpc = "loop" /\ rlast = "retry"
    /\ rlast' = "timeout"
    /\ AccountReadReturn(AccountReadAfterRetry(d, TRUE, None))
    /\ UNCHANGED <<kind, other, entry, op, ratt, calls, hist>>

\* ResourceJamfProAccountUpdate: one run of the update closure, and the code
\* after the loop when the run ends it.
AccountUpdateAttempt ==
    /\ kind = "accounts" /\ pc = "update" /\ att < MaxAttempts
    /\ \E ga \in GetAccountsResponses, ui \in PlainResponses :
       \E un \in IF ui = "transport" THEN PlainResponses ELSE {"transport"} :
       \E tid \in NameHolders(un, AccountIDs) :
         LET r == AccountUpdateClosure(d, ga, ui, un)
         IN /\ calls' = r.calls
            /\ last' = r.out
            /\ hist' = HistTargets(
                         HistListing(
                           HistCtor(HistTrack(HistAfter(r.calls), r.calls, r.out),
                                    constructJamfProAccount(d, ga)), ga),
                         r.calls, tid)
            /\ IF r.out = "success"
               THEN /\ pc' = "readback"
                    /\ att' = 0
                    /\ UNCHANGED diags
               ELSE IF r.out = "fatal"
               THEN /\ pc' = "done"
                    /\ diags' = generateTFDiagsFromHTTPError("update")
                    /\ att' = att + 1
               ELSE /\ att' = att + 1
                    /\ UNCHANGED <<pc, diags>>
    /\ UNCHANGED <<kind, other, d, entry, op, rpc, ratt, rlast>>

\* The deadline of the update retry passes after a retryable failure.
AccountUpdateTimeout ==
    /\ kind = "accounts" /\ pc = "update" /\ last = "retry"
    /\ last' = "timeout"
    /\ pc' = "done"
    /\ diags' = generateTFDiagsFromHTTPError("update")
    /\ UNCHANGED <<kind, other, d, entry, op, rpc, att, ratt, rlast, calls, hist>>

\* ResourceJamfProAccountDelete: one run of the delete closure, and the code
\* after the loop when the run ends it.
AccountDeleteAttempt ==
    /\ kind = "accounts" /\ pc = "delete" /\ att < MaxAttempts
    /\ \E di \in PlainResponses, dn \in PlainResponses :
       \E tid \in NameHolders(dn, AccountIDs) :
         LET r == AccountDeleteClosure(d, di, dn)
             f == AccountDeleteAfterRetry(d, r.out = "fatal")
         IN /\ calls' = r.calls
            /\ last' = r.out
            /\ att' = att + 1
            /\ hist' = HistTargets(HistTrack(HistAfter(r.calls), r.calls, r.out),
                                    r.calls, tid)
            /\ IF r.out = "retry"
               THEN UNCHANGED <<d, pc, diags>>
               ELSE d' = f.d /\ diags' = f.diags /\ pc' = "done"
    /\ UNCHANGED <<kind, other, entry, op, rpc, ratt, rlast>>

\* The deadline of the delete retry passes after a retryable failure.
AccountDeleteTimeout ==
    /\ kind = "accounts" /\ pc = "delete" /\ last = "retry"
    /\ last' = "timeout"
    /\ pc' = "done"
    /\ d' = AccountDeleteAfterRetry(d, TRUE).d
    /\ diags' = AccountDeleteAfterRetry(d, TRUE).diags
    /\ UNCHANGED <<kind, other, entry, op, rpc, att, ratt, rlast, calls, hist>>

-----------------------------------------------------------------------------
(* departments *)

\* ResourceJamfProDepartmentsCreate: construct, create once, set the
\* identifier and call Read.
DepartmentsCreate ==
    /\ kind = "departments" /\ pc = "create"
    /\ \E cr \in CreateDepartmentResponses :
         LET r == DepartmentsCreateCall(d, cr)
         IN /\ calls' = r.calls
            /\ last' = r.out
            /\ att' = att + 1
            /\ hist' = [HistCtor(HistTrack(HistAfter(r.calls), r.calls, r.out),
                                  [ok |-> TRUE,
                                   account |-> constructJamfProDepartment(d)])
                         EXCEPT
                          !.createOK = (r.out = "success"),
                          !.created = IF r.out = "success" THEN cr.id ELSE @]
            /\ d' = r.d
            /\ diags' = r.diags
            /\ IF r.out = "success"
               THEN pc' = "readback" /\ rpc' = "loop"
               ELSE pc' = "done" /\ UNCHANGED rpc
    /\ UNCHANGED <<kind, other, entry, op, ratt, rlast>>

\* ResourceJamfProDepartmentsRead returns f: to the host, or to Create or
\* Update, which append its diagnostics and return.
DepartmentsReadReturn(f) ==
    /\ d' = f.d
    /\ rpc' = "off"
    /\ pc' = "done"
    /\ diags' = diags \o f.diags

\* ResourceJamfProDepartmentsRead: one run of the read closure, and the code
\* after the loop when the run ends it.
DepartmentsReadAttempt ==
    /\ kind = "departments" /\ rpc = "loop" /\ ratt < MaxAttempts
    /\ \E gi \in GetDepartmentByIDResponses(d.id) :
         LET r == DepartmentsReadClosure(d, gi)
         IN /\ calls' = r.calls
            /\ rlast' = r.out
            /\ ratt' = ratt + 1
            /\ hist' = HistTrack(HistAfterRead(r.out, r.department), r.calls, r.out)
            /\ IF r.out = "retry"
               THEN UNCHANGED <<d, pc, rpc, diags>>
               ELSE DepartmentsReadReturn(
                        DepartmentsReadAfterRetry(d, FALSE, r.department))
    /\ UNCHANGED <<kind, other, entry, op, att, last>>

\* The deadline of the read retry passes after a retryable failure.
DepartmentsReadTimeout ==
    /\ kind = "departments" /\ rpc = "loop" /\ rlast = "retry"
    /\ rlast' = "timeout"
    /\ DepartmentsReadReturn(DepartmentsReadAfterRetry(d, TRUE, None))
    /\ UNCHANGED <<kind, other, entry, op, att, ratt, last, calls, hist>>

\* DepartmentsUpdateAfterRetry returning the empty diagnostics when the loop
\* failed.
DepartmentsUpdateAfterRetrySwallowsError(failed) ==
    IF failed
    THEN [diags |-> <<>>, pc |-> "done", rpc |-> "off"]
    ELSE [diags |-> <<>>, pc |-> "readback", rpc |-> "loop"]

\* ResourceJamfProDepartmentsUpdate after its retry loop: report the
\* failure, or go on to call Read.
DepartmentsUpdateAfterRetry(failed) ==
    IF failed
    THEN [diags |-> ErrorDiag("update"), pc |-> "done", rpc |-> "off"]
    ELSE [diags |-> <<>>, pc |-> "readback", rpc |-> "loop"]

\* ResourceJamfProDepartmentsUpdate: one run of the update closure, and the
\* code after the loop when the run ends it.
DepartmentsUpdateAttempt ==
    /\ kind = "departments" /\ pc = "update" /\ att < MaxAttempts
    /\ \E ui \in PlainResponses, un \in PlainResponses :
       \E tid \in NameHolders(un, DepartmentIDs) :
         LET r == DepartmentsUpdateClosure(d, ui, un)
             f == DepartmentsUpdateAfterRetry(FALSE)
             h == HistTargets(HistTrack(HistAfter(r.calls), r.calls, r.out),
                              r.calls, tid)
         IN /\ calls' = r.calls
            /\ last' = r.out
            /\ att' = att + 1
            /\ hist' = IF att = 0
                       THEN HistCtor(h, [ok |-> TRUE,
                                         account |-> constructJamfProDepartment(d)])
                       ELSE h
            /\ IF r.out = "retry"
               THEN UNCHANGED <<pc, rpc, diags>>
               ELSE pc' = f.pc /\ rpc' = f.rpc /\ diags' = f.diags
    /\ UNCHANGED <<kind, other, d, entry, op, ratt, rlast>>

\* The deadline of the update retry passes after a retryable failure.
DepartmentsUpdateTimeout ==
    /\ kind = "departments" /\ pc = "update" /\ last = "retry"
    /\ last' = "timeout"
    /\ pc' = DepartmentsUpdateAfterRetry(TRUE).pc
    /\ rpc' = DepartmentsUpdateAfterRetry(TRUE).rpc
    /\ diags' = DepartmentsUpdateAfterRetry(TRUE).diags
    /\ UNCHANGED <<kind, other, d, entry, op, att, ratt, rlast, calls, hist>>

\* ResourceJamfProDepartmentsDelete: one run of the delete closure, and the
\* code after the loop when the run ends it.
DepartmentsDeleteAttempt ==
    /\ kind = "departments" /\ pc = "delete" /\ att < MaxAttempts
    /\ \E di \in PlainResponses, dn \in PlainResponses :
       \E tid \in NameHolders(dn, DepartmentIDs) :
         LET r == DepartmentsDeleteClosure(d, di, dn)
             f == DepartmentsDeleteAfterRetry(d, FALSE)
         IN /\ calls' = r.calls
            /\ last' = r.out
            /\ att' = att + 1
            /\ hist' = HistTargets(HistTrack(HistAfter(r.calls), r.calls, r.out),
                                    r.calls, tid)
            /\ IF r.out = "retry"
               THEN UNCHANGED <<d, pc, diags>>
               ELSE d' = f.d /\ diags' = f.diags /\ pc' = "done"
    /\ UNCHANGED <<kind, other, entry, op, rpc, ratt, rlast>>

\* The deadline of the delete retry passes after a retryable failure.
DepartmentsDeleteTimeout ==
    /\ kind = "departments" /\ pc = "delete" /\ last = "retry"
    /\ last' = "timeout"
    /\ pc' = "done"
    /\ d' = DepartmentsDeleteAfterRetry(d, TRUE).d
    /\ diags' = DepartmentsDeleteAfterRetry(d, TRUE).diags
    /\ UNCHANGED <<kind, other, entry, op, rpc, att, ratt, rlast, calls, hist>>

-----------------------------------------------------------------------------

Next ==
    \/ HostCreate
    \/ HostRead
    \/ HostUpdate
    \/ HostDelete
    \/ AccountCreateAttempt
    \/ AccountCreateTimeout
    \/ AccountReadbackBegin
    \/ AccountReadbackTimeout
    \/ AccountReadAttempt
    \/ AccountReadTimeout
    \/ AccountUpdateAttempt
    \/ AccountUpdateTimeout
    \/ AccountDeleteAttempt
    \/ AccountDeleteTimeout
    \/ DepartmentsCreate
    \/ DepartmentsReadAttempt
    \/ DepartmentsReadTimeout
    \/ DepartmentsUpdateAttempt
    \/ DepartmentsUpdateTimeout
    \/ DepartmentsDeleteAttempt
    \/ DepartmentsDeleteTimeout

Spec == Init /\ [][Next]_vars

\* A step of the running callback: a remote call returns and the closure run
\* ends, or the deadline of the retry passes.
CallbackStep ==
    \/ AccountCreateAttempt
    \/ AccountCreateTimeout
    \/ AccountReadbackBegin
    \/ AccountReadbackTimeout
    \/ AccountReadAttempt
    \/ AccountReadTimeout
    \/ AccountUpdateAttempt
    \/ AccountUpdateTimeout
    \/ AccountDeleteAttempt
    \/ AccountDeleteTimeout
    \/ DepartmentsCreate
    \/ DepartmentsReadAttempt
    \/ DepartmentsReadTimeout
    \/ DepartmentsUpdateAttempt
    \/ DepartmentsUpdateTimeout
    \/ DepartmentsDeleteAttempt
    \/ DepartmentsDeleteTimeout

\* Every remote call returns and the timeout of a retry expires: the running
\* callback is never stopped for good while it has a step to take.
LiveSpec == Spec /\ WF_vars(CallbackStep)

-----------------------------------------------------------------------------
(* Two resource instances.  Every callback gets the resource data of its own
   instance as its parameter d and keeps the rest of its state in locals; the
   package holds no variable.  The host runs callbacks of two instances
   interleaved, at most one callback at a time per instance.  calls and hist
   follow the instance that is running, from the moment it is resumed. *)

\* SaveInstance handing over the resource data of the other instance: one
\* resource data shared by the callbacks of both instances.
SaveInstanceSharedData ==
    [d |-> other.d, entry |-> entry, op |-> op, pc |-> pc, rpc |-> rpc,
     att |-> att, ratt |-> ratt, last |-> last, rlast |-> rlast,
     diags |-> diags]

\* The resource data and the callback position of the running instance.
SaveInstance ==
    [d |-> d, entry |-> entry, op |-> op, pc |-> pc, rpc |-> rpc,
     att |-> att, ratt |-> ratt, last |-> last, rlast |-> rlast,
     diags |-> diags]

\* The second instance before the host has invoked any callback on it.
IdleInstances ==
    {[d |-> Planned(kind, id, cfg), entry |-> Planned(kind, id, cfg),
      op |-> "none", pc |-> "idle", rpc |-> "off", att |-> 0, ratt |-> 0,
      last |-> "none", rlast |-> "none", diags |-> <<>>] :
        id \in StoredIds(kind), cfg \in Configs(kind)}

\* The next step is a step of the other instance: the callbacks of the two
\* instances run on goroutines of their own.
Switch ==
    /\ other' = SaveInstance
    /\ d' = other.d
    /\ entry' = other.entry
    /\ op' = other.op
    /\ pc' = other.pc
    /\ rpc' = other.rpc
    /\ att' = other.att
    /\ ratt' = other.ratt
    /\ last' = other.last
    /\ rlast' = other.rlast
    /\ diags' = other.diags
    /\ calls' = <<>>
    /\ hist' = InitHist
    /\ UNCHANGED kind

PairInit ==
    /\ InitInstance
    /\ kind = "departments"
    /\ other \in IdleInstances

PairNext ==
    \/ HostCreate
    \/ HostRead
    \/ HostUpdate
    \/ HostDelete
    \/ DepartmentsCreate
    \/ DepartmentsReadAttempt
    \/ DepartmentsReadTimeout
    \/ DepartmentsUpdateAttempt
    \/ DepartmentsUpdateTimeout
    \/ DepartmentsDeleteAttempt
    \/ DepartmentsDeleteTimeout
    \/ Switch

PairSpec == PairInit /\ [][PairNext]_vars

-----------------------------------------------------------------------------
(* Properties *)

GetByIDCalls == {"GetAccountByID", "GetDepartmentByID"}
GetByNameCalls == {"GetAccountByName", "GetDepartmentByName"}
UpdateByIDCalls == {"UpdateAccountByID", "UpdateDepartmentByID"}
UpdateByNameCalls == {"UpdateAccountByName", "UpdateDepartmentByName"}
DeleteByIDCalls == {"DeleteAccountByID", "DeleteDepartmentByID"}
DeleteByNameCalls == {"DeleteAccountByName", "DeleteDepartmentByName"}

\* s is the decimal rendering of the integer n: it parses to n, carries no
\* plus sign and no leading zero.
IsDecimalRendering(s, n) ==
    /\ Atoi(s).ok
    /\ Atoi(s).val = n
    /\ s[1] # "+"
    /\ (n >= 0 => s[1] # "-")
    /\ \A i \in 1..(Len(s) - 1) : (s[i] = "0" => i > 1 /\ IsDigit(s[i - 1]))

\* The state identifier is the identifier i that the remote create returned.
IdIsCreated(i) ==
    IF kind = "accounts" THEN IsDecimalRendering(d.id, i) ELSE d.id = i

\* The state identifier is the identifier of the entity e.
IdIsOf(e) ==
    IF kind = "accounts" THEN IsDecimalRendering(d.id, e.id) ELSE d.id = e.id

\* The Read that ran last in the callback failed: its loop ended on an error.
ReadFailed == rlast \in {"fatal", "timeout"}

\* C1: when the remote create of a Create callback succeeded and every
\* attempt of the read-back failed, the callback returns a diagnostic and the
\* state identifier is still the one the remote create returned.
C1_ReadbackFailureKeepsId ==
    (op = "create" /\ pc = "done" /\ hist.createOK /\ ReadFailed)
        => (diags # <<>> /\ IdIsCreated(hist.created))

\* C2: when a Read callback fails on every attempt, it returns a non-empty
\* diagnostic list and the state identifier is the empty string on return.
C2_FailedReadClearsId ==
    (op = "read" /\ pc = "done" /\ ReadFailed)
        => (diags # <<>> /\ d.id = <<>>)

\* C3: in a Read attempt whose fetch by ID returns a structured API error,
\* the fetch by name is issued next, and the attempt succeeds if that fetch
\* succeeds.
C3_StructuredErrorFallsBackToName ==
    \A i \in Issued(calls, GetByIDCalls) :
        calls[i].res = "api"
            => /\ i + 1 \in Issued(calls, GetByNameCalls)
               /\ (calls[i + 1].res = "ok" => rlast = "success")

\* The latest run of a read closure had its fetch by ID fail with a transport
\* error and its fetch by name succeed.
TransportThenNameOK ==
    \E i \in Issued(calls, GetByIDCalls) :
        /\ calls[i].res = "transport"
        /\ i + 1 \in Issued(calls, GetByNameCalls)
        /\ calls[i + 1].res = "ok"

\* C4: when the fetch by ID of a Read fails with a transport error and the
\* fallback fetch by name succeeds, the Read succeeds, the state name is the
\* fetched entity's name and the state identifier is that entity's
\* identifier.
C4_NameLookupSetsId ==
    TransportThenNameOK
        => /\ rlast = "success"
           /\ (op = "read" => pc = "done" /\ diags = <<>>)
           /\ d.name = hist.fetched.name
           /\ IdIsOf(hist.fetched)

\* The fallback rule of one closure run, for the calls byID and byName: the
\* name-based call is issued iff the ID-based call of the run returned an
\* error, it comes after it, and the run succeeds when either call succeeds.
FallbackRule(byID, byName) ==
    /\ (Issued(calls, byName) # {})
           <=> (\E i \in Issued(calls, byID) : calls[i].res # "ok")
    /\ \A j \in Issued(calls, byName) : \E i \in Issued(calls, byID) : i < j
    /\ Succeeded(calls, byID \cup byName) => last = "success"

\* C5: in every attempt of an Update callback the update by name is issued
\* if and only if the update by ID of that attempt returned an error of any
\* kind, and after it; the attempt succeeds when either call succeeds.
C5_UpdateFallback == FallbackRule(UpdateByIDCalls, UpdateByNameCalls)

\* C6: in every attempt of a Delete callback the delete by name is issued if
\* and only if the delete by ID of that attempt returned an error, structured
\* or not, and after it; the attempt succeeds when either call succeeds.
C6_DeleteFallback == FallbackRule(DeleteByIDCalls, DeleteByNameCalls)

\* A delete closure run in which the delete by ID returned a structured API
\* error and the delete by name that followed succeeded.
C6_Witness ==
    /\ op = "delete" /\ last = "success"
    /\ \E i \in Issued(calls, DeleteByIDCalls) :
          /\ calls[i].res = "api"
          /\ i + 1 \in Issued(calls, DeleteByNameCalls)
          /\ calls[i + 1].res = "ok"

\* C7: after a Delete callback in which the delete by ID or the fallback
\* delete by name succeeded in some attempt, the state identifier is the
\* empty string and the callback returned no diagnostics.
C7_DeleteSuccessClearsId ==
    (op = "delete" /\ hist.remoteOK)
        => (pc = "done" /\ d.id = <<>> /\ diags = <<>>)

\* A Delete of a resource with an identifier that succeeded through the
\* name path in its second attempt.
C7_Witness ==
    /\ op = "delete" /\ pc = "done" /\ hist.remoteOK
    /\ entry.id # <<>>
    /\ att = 2
    /\ Succeeded(calls, DeleteByNameCalls)

\* C8: when both the ID-based and the name-based call of an Update or Delete
\* callback fail in every attempt until the retry loop ends, the callback
\* returns a non-empty diagnostic list and the whole Resource State is the
\* same as at callback entry.
C8_BothFailLeavesState ==
    (op \in {"update", "delete"} /\ pc = "done" /\ att >= 1 /\ hist.bothFailed)
        => (diags # <<>> /\ d = entry)

\* A Delete of a resource with an identifier, ended by the deadline after
\* two attempts in which both calls failed.
C8_Witness ==
    /\ op = "delete" /\ pc = "done" /\ hist.bothFailed
    /\ att >= 2 /\ last = "timeout"
    /\ entry.id # <<>>

\* C9: after a Create callback whose remote create returned identifier i and
\* whose read-back succeeded, the state identifier is i (for accounts its
\* decimal rendering) and the state name is the fetched entity's name.
C9_CreateThenReadKeepsId ==
    (op = "create" /\ pc = "done" /\ hist.createOK /\ hist.readOK)
        => (IdIsCreated(hist.created) /\ d.name = hist.fetched.name)

\* An accounts Create that was given a two-digit identifier and whose
\* read-back fetched an entity under another name than the configured one.
C9_Witness ==
    /\ kind = "accounts" /\ op = "create" /\ pc = "done"
    /\ hist.createOK /\ hist.readOK
    /\ hist.created = 12
    /\ hist.fetched.name # entry.name

\* C10: in a Create callback a remote create that fails with a structured
\* API error ends the callback with a diagnostic without another create
\* attempt, and a remote create that fails with any other error is attempted
\* again until it succeeds or the create timeout expires.
C10_CreateRetryPolicy ==
    op = "create" =>
        /\ hist.lastCreate = "api" => (pc = "done" /\ diags # <<>>)
        /\ (hist.lastCreate = "transport" /\ pc = "done") => last = "timeout"

\* An ID-based call and the name-based call that may follow its failure.
IDBasedCalls == GetByIDCalls \cup UpdateByIDCalls \cup DeleteByIDCalls
NameBasedCalls == GetByNameCalls \cup UpdateByNameCalls \cup DeleteByNameCalls

\* C11: in Read, Update and Delete, once a remote call has returned a
\* structured API error the callback issues no further remote call except
\* the name-based fallback directly after a failed ID-based call; a
\* structured API error from the name-based call ends the retry loop at once.
C11_StructuredErrorEndsCalls ==
    op \in {"read", "update", "delete"} =>
        /\ ~hist.afterApi
        /\ ~hist.apiRetried
        /\ \A i \in 1..Len(calls) :
              calls[i].res = "api" =>
                  \/ i = Len(calls)
                  \/ /\ i + 1 = Len(calls)
                     /\ calls[i].call \in IDBasedCalls
                     /\ calls[i + 1].call \in NameBasedCalls

\* C12: if in a Delete callback both calls fail with unstructured errors in
\* the first attempts and a later attempt made before the timeout succeeds,
\* the callback returns no diagnostics and the state identifier is the empty
\* string.
C12_DeleteRetriesTransportFailures ==
    (op = "delete" /\ hist.transportRuns >= 1 /\ hist.remoteOK)
        => (pc = "done" /\ diags = <<>> /\ d.id = <<>>)

\* A Delete of a resource with an identifier in which every attempt but the
\* last one the deadline allows had both calls fail with a transport error,
\* and the last one succeeded.
C12_Witness ==
    /\ op = "delete" /\ pc = "done" /\ last = "success"
    /\ entry.id # <<>>
    /\ att = MaxAttempts
    /\ hist.transportRuns = MaxAttempts - 1

C14_RequestFromConfigAlone ==
    \A r1, r2 \in hist.requests : r1 = r2

\* C14, amended: every request the constructor builds takes its name,
\* password, site and group names from the configuration alone, so two runs
\* on equal configurations differ at most in the identifiers of the groups,
\* which the accounts constructor takes from the remote group listing.
C14_RequestFromConfigAndListing ==
    \A r \in hist.requests :
        /\ r.name = entry.name
        /\ kind = "accounts" =>
              /\ r.password = entry.password
              /\ r.site = (IF entry.site # <<>> THEN entry.site[1] ELSE NoSite)
              /\ {g.name : g \in r.groups} = {g.name : g \in entry.groups}

\* Two constructor runs of one callback returned different requests.
C14_Witness ==
    \E r1, r2 \in hist.requests : r1 # r2

\* The Resource State holds the fields of the entity e.
StateMatches(e) ==
    /\ IdIsOf(e)
    /\ d.name = e.name
    /\ kind = "accounts" =>
          /\ d.password = e.password
          /\ d.site = (IF e.site = NoSite THEN <<>> ELSE <<e.site>>)
          /\ d.groups =
                {[name |-> e.groups[i].name,
                  id   |-> e.groups[i].id,
                  site |-> IF e.groups[i].site = NoSite THEN <<>>
                           ELSE <<e.groups[i].site>>] : i \in 1..Len(e.groups)}

\* Read has been invoked in the callback.
ReadInvoked == rpc = "loop" \/ ratt > 0

\* C15: an Update callback invokes Read if and only if its remote update
\* succeeded, and after it; when that Read succeeds the callback returns no
\* diagnostics and the state fields equal the fields of the fetched entity.
C15_UpdateThenRead ==
    op = "update" =>
        /\ ReadInvoked => hist.remoteOK
        /\ (pc = "done" /\ hist.remoteOK) => ReadInvoked
        /\ (pc = "done" /\ hist.readOK /\ rlast = "success")
              => (diags = <<>> /\ StateMatches(hist.fetched))

\* C16: after a successful Read every field of the Resource State equals the
\* field of the fetched entity, an absent site being stored as the empty
\* list.
C16_ReadCopiesEveryField ==
    (rpc = "off" /\ hist.readOK /\ rlast = "success")
        => StateMatches(hist.fetched)

\* The entities e1 and e2 can both be entities of one remote system, in which
\* identifiers and names are unique.
SameRemote(e1, e2) ==
    /\ e1.id = e2.id => e1 = e2
    /\ e1.name = e2.name => e1 = e2

\* C17: Read is idempotent on an unchanged remote: when two Read callbacks in
\* a row both succeed and the remote system did not change between them, the
\* Resource State after the second equals the Resource State after the first.
C17_ReadIdempotent ==
    (/\ op = "read" /\ pc = "done" /\ hist.readOK /\ diags = <<>>
     /\ hist.prevOK
     /\ SameRemote(hist.prevFetched, hist.fetched))
        => d = hist.prevD

\* The Read that ran last in the callback did not find the entity.
ReadFoundNothing == ReadFailed \/ (rlast = "success" /\ ~hist.readOK)

\* C18: a callback leaves the state identifier non-empty after finding it
\* empty only if it is a Create whose remote create succeeded, and leaves it
\* empty after finding it non-empty only if it is a Delete whose remote delete
\* succeeded or a Read that did not find the entity.
C18_IdEmptinessChanges ==
    /\ (entry.id = <<>> /\ d.id # <<>>) => (op = "create" /\ hist.createOK)
    /\ (entry.id # <<>> /\ d.id = <<>>)
          => \/ op = "delete" /\ hist.remoteOK
             \/ op = "read" /\ ReadFoundNothing

\* The fields of the resource data dd other than the identifier.
NonId(dd) == [f \in DOMAIN dd \ {"id"} |-> dd[f]]

\* C19: the non-identifier fields of the Resource State are written only
\* after a remote fetch succeeded in the callback: while no fetch of the
\* callback has returned an entity they are as they were at entry.
C19_FieldsWrittenOnlyAfterFetch ==
    ~hist.readOK => NonId(d) = NonId(entry)

\* An Update callback has returned whose remote update succeeded and whose
\* Read fetched no entity.
C19_Witness ==
    /\ op = "update" /\ pc = "done"
    /\ hist.remoteOK /\ ratt > 0 /\ ~hist.readOK

\* The deadline of the retry loop that decides the callback's result has
\* passed: that of the callback's own loop, or that of the Read whose
\* diagnostics the callback returns.
DeadlinePassed ==
    \/ last = "timeout"
    \/ rlast = "timeout" /\ rpc = "off" /\ (op = "read" \/ kind = "departments")

\* C20: every callback eventually returns, given that each remote call
\* returns and the timeout expires; a callback whose retry loop stopped at
\* the deadline has returned with a non-empty diagnostic list.
C20_CallbacksReturn ==
    /\ (pc \notin {"idle", "done"}) ~> (pc = "done")
    /\ [](DeadlinePassed => (pc = "done" /\ diags # <<>>))

\* A callback has returned after every run of its closure that the deadline
\* allowed ended with a retryable error.
C20_Witness ==
    /\ pc = "done" /\ last = "timeout" /\ att = MaxAttempts
    /\ diags # <<>>

-----------------------------------------------------------------------------
\* How a loop of the callback, or the loop of its Read, stopped on an error.
StoppedOnError ==
    \/ last \in {"fatal", "timeout"}
    \/ rlast \in {"fatal", "timeout"}

\* Every remote step the callback performed ended in success.
EveryStepSucceeded ==
    /\ op = "create" => hist.lastCreate = "ok"
    /\ op \in {"update", "delete"} => hist.remoteOK
    /\ op \in {"create", "update", "read"} => rlast = "success"

\* C21: a callback returns the empty diagnostic list only if every remote
\* step it performed ended in success (the create, update or delete, and the
\* read-back where there is one), and a callback that stopped on an error
\* returns at least one error diagnostic.
C21_NoErrorSwallowed ==
    pc = "done" =>
      /\ diags = <<>> => EveryStepSucceeded
      /\ StoppedOnError => diags # <<>>

\* A Create whose remote create succeeded and whose read-back failed has
\* returned an error diagnostic.
C21_Witness ==
    /\ op = "create" /\ pc = "done"
    /\ hist.lastCreate = "ok"
    /\ rlast \in {"fatal", "timeout"}
    /\ diags # <<>>

-----------------------------------------------------------------------------
\* s is not a decimal integer: it is empty, a bare sign, or holds a character
\* that is not a decimal digit after the optional sign.
NotDecimalInteger(s) ==
    LET body == IF s # <<>> /\ s[1] \in {"+", "-"} THEN Tail(s) ELSE s
    IN body = <<>> \/ \E i \in 1..Len(body) : ~IsDigit(body[i])

\* C23: in the accounts reconciler, when the stored identifier is not a
\* decimal integer (the empty identifier included), Read, Update and Delete
\* return an error diagnostic after a single attempt, issue no get, update or
\* delete call by ID or by name, and leave the resource data unchanged.
C23_UnparsableIdFailsAtOnce ==
    (/\ kind = "accounts"
     /\ op \in {"read", "update", "delete"}
     /\ NotDecimalInteger(entry.id))
    => /\ d = entry
       /\ Issued(calls, IDBasedCalls \cup NameBasedCalls) = {}
       /\ att + ratt <= 1
       /\ att + ratt = 1 => pc = "done" /\ diags # <<>>

\* An accounts Update with the identifier "x" whose constructor succeeded has
\* returned after one attempt.
C23_Witness ==
    /\ kind = "accounts" /\ op = "update" /\ pc = "done"
    /\ entry.id = <<"x">>
    /\ att = 1
    /\ ~hist.ctorFailed
    /\ diags # <<>>

-----------------------------------------------------------------------------
\* The listing that the latest constructor run got holds no group named n.
MissingFromListing(n) ==
    \A i \in 1..Len(hist.listing.groups) : hist.listing.groups[i].name # n

\* The listing that the latest constructor run got gives the ID i for the
\* group name n.
ListingGives(n, i) ==
    \E k \in 1..Len(hist.listing.groups) :
        hist.listing.groups[k].name = n /\ hist.listing.groups[k].id = i

\* C24: the accounts constructor resolves groups against the remote listing:
\* when it succeeds, its request holds exactly one group per configured
\* group, each with the configured name and an ID that the listing gives for
\* that name; when a configured group name is missing from the listing it
\* fails and returns no request.
C24_GroupsResolvedFromListing ==
    (kind = "accounts" /\ hist.listing.res = "ok") =>
      /\ (\E g \in entry.groups : MissingFromListing(g.name))
            => ~hist.lastCtor.ok /\ hist.lastCtor.account = None
      /\ hist.lastCtor.ok =>
            /\ Cardinality(hist.lastCtor.account.groups)
                 = Cardinality(entry.groups)
            /\ \A g \in entry.groups :
                 \E q \in hist.lastCtor.account.groups :
                    /\ q.name = g.name
                    /\ ListingGives(g.name, q.id)
                    /\ \A x \in hist.lastCtor.account.groups :
                          x.name = g.name => x = q

\* The constructor of an Update has resolved a configured group against a
\* listing of two groups.
C24_Witness ==
    /\ kind = "accounts" /\ op = "update"
    /\ entry.groups # {}
    /\ hist.listing.res = "ok"
    /\ Len(hist.listing.groups) = 2
    /\ hist.lastCtor.ok

-----------------------------------------------------------------------------
\* The accounts Create or Update is past its remote create or update.
InReadback ==
    /\ kind = "accounts"
    /\ \/ op = "create" /\ hist.createOK
       \/ op = "update" /\ hist.remoteOK

\* C25: in the accounts reconciler the read-back after a successful remote
\* create or update is attempted again after every failed Read, whatever the
\* failure, until a Read succeeds or the read timeout expires: a failed Read
\* leaves the read-back loop with a retryable error and a further attempt
\* ready, the loop ends only on a successful Read or at the deadline, and
\* the identifier set from the create response stays in the resource data.
C25_ReadbackRetriesEveryFailure ==
    InReadback =>
      /\ (pc = "readback" /\ rpc = "off" /\ att > 0) => last = "retry"
      /\ (pc = "readback" /\ rpc = "off" /\ att > 0 /\ att < MaxAttempts)
            => ENABLED AccountReadbackBegin
      /\ pc = "done" => \/ last = "success" /\ rlast = "success"
                        \/ last = "timeout"
      /\ op = "create" => IdIsCreated(hist.created)

\* The read-back of a Create succeeded at its second attempt, after a Read
\* that got a structured API error.
C25_Witness ==
    /\ kind = "accounts" /\ op = "create" /\ pc = "done"
    /\ hist.createOK /\ hist.apiSeen
    /\ att = 2 /\ last = "success"
    /\ diags = <<>>

-----------------------------------------------------------------------------
\* C26: within one Create callback of either reconciler no remote create call
\* is issued after a remote create call has returned success, so a Create
\* makes at most one successful remote create; and the departments Create,
\* whose constructor cannot fail on a valid configuration, has issued exactly
\* one remote create call once it is past its create step.
C26_NoCreateAfterSuccess ==
    /\ []((kind = "departments" /\ op = "create" /\ pc # "create")
            => hist.nCreate = 1)
    /\ [][(op = "create" /\ pc \notin {"idle", "done"}
              /\ hist.lastCreate = "ok")
            => hist'.nCreate = hist.nCreate]_vars

\* An accounts Create has returned after two remote create calls, the second
\* of which succeeded.
C26_Witness ==
    /\ kind = "accounts" /\ op = "create" /\ pc = "done"
    /\ hist.nCreate = 2
    /\ hist.lastCreate = "ok"
    /\ hist.createOK

-----------------------------------------------------------------------------
\* The identifier t is the state identifier the callback was entered with.
IsEntryId(t) ==
    IF kind = "accounts" THEN IsDecimalRendering(entry.id, t) ELSE entry.id = t

\* C27: for both reconcilers, every remote entity that an Update callback
\* modifies or a Delete callback removes is the entity whose identifier is
\* the state identifier at callback entry, also when the call that succeeds
\* is the name-based fallback.
C27_OnlyOwnEntityTouched ==
    op \in {"update", "delete"} => \A t \in hist.targets : IsEntryId(t)

-----------------------------------------------------------------------------
\* The resource data and the callback position of the running instance.
RunningInstance ==
    [d |-> d, entry |-> entry, op |-> op, pc |-> pc, rpc |-> rpc,
     att |-> att, ratt |-> ratt, last |-> last, rlast |-> rlast,
     diags |-> diags]

====
